---- MODULE Spec2Model ----
(***************************************************************************)
(* static_transform_publisher with dynamic reconfiguration                 *)
(* (tf/src/static_transform_publisher.cpp).                                *)
(*                                                                         *)
(* The state is the TransformSender object (transform_, angle_units_, the  *)
(* reconfigure server's min/max limits), the config object the server      *)
(* hands to reconfCallback by reference, and the position of main().       *)
(*                                                                         *)
(* A double is modelled as an exact number (a + b*sqrt(2) + p*pi)/d, or    *)
(* as NaN / +Inf / -Inf (d = 0).  Rounding is not modelled: the rotations  *)
(* used are those whose quaternion and matrix entries are exact in this    *)
(* number set (half angles that are multiples of pi/4).                    *)
(***************************************************************************)
EXTENDS Integers, Sequences, FiniteSets, TLC

(***************************************************************************)
(* Exact numbers standing for the doubles of the program.                  *)
(* <<a, b, p, d>> is (a + b*sqrt(2) + p*pi)/d with d > 0 in lowest terms;  *)
(* d = 0 marks the IEEE specials: a = 0 NaN, a = 1 +Inf, a = -1 -Inf.      *)
(***************************************************************************)
Abs(i) == IF i < 0 THEN -i ELSE i

RECURSIVE Gcd(_, _)
Gcd(i, j) == IF j = 0 THEN i ELSE Gcd(j, i % j)

NaN == <<0, 0, 0, 0>>
PosInf == <<1, 0, 0, 0>>
NegInf == <<-1, 0, 0, 0>>

IsNaN(x) == x = NaN
IsInf(x) == x[4] = 0 /\ x[1] # 0
IsFinite(x) == x[4] # 0

\* a, b, p, d divided by g, the sign moved to the numerators.
Reduce(a, b, p, d, g) ==
  IF d < 0 THEN <<(-a) \div g, (-b) \div g, (-p) \div g, (-d) \div g>>
  ELSE <<a \div g, b \div g, p \div g, d \div g>>

\* (a + b*sqrt(2) + p*pi)/d in lowest terms, d # 0.
Mk(a, b, p, d) == Reduce(a, b, p, d, Gcd(Gcd(Gcd(Abs(d), Abs(a)), Abs(b)), Abs(p)))

Rat(n, d) == Mk(n, 0, 0, d)
I(n) == <<n, 0, 0, 1>>
Zero == <<0, 0, 0, 1>>
One == <<1, 0, 0, 1>>
Two == <<2, 0, 0, 1>>
Half == <<1, 0, 0, 2>>
M_PI == <<0, 0, 1, 1>>
Root2Half == <<0, 1, 0, 2>>

\* Sign of a + b*sqrt(2): exact, by comparing squares.
SignRoot2(a, b) ==
  IF b = 0 THEN (IF a > 0 THEN 1 ELSE IF a < 0 THEN -1 ELSE 0)
  ELSE IF a = 0 THEN (IF b > 0 THEN 1 ELSE -1)
  ELSE IF a > 0 /\ b > 0 THEN 1
  ELSE IF a < 0 /\ b < 0 THEN -1
  ELSE IF a > 0 THEN (IF a * a > 2 * b * b THEN 1 ELSE -1)
  ELSE (IF 2 * b * b > a * a THEN 1 ELSE -1)

\* Sign of a + p*pi with p # 0, from 333/106 < pi < 355/113.
SignPi(a, p) ==
  IF p > 0 /\ 106 * a + 333 * p > 0 THEN 1
  ELSE IF p > 0 /\ 113 * a + 355 * p < 0 THEN -1
  ELSE IF p < 0 /\ 113 * a + 355 * p > 0 THEN 1
  ELSE IF p < 0 /\ 106 * a + 333 * p < 0 THEN -1
  ELSE CHOOSE s \in {} : TRUE   \* closer to 0 than the bounds on pi decide

\* -1, 0 or 1 for a finite or infinite number (never asked of NaN).
\* sqrt(2) and pi never meet in one number of the program.
Sign(x) ==
  IF x[4] = 0 THEN x[1]
  ELSE IF x[3] = 0 THEN SignRoot2(x[1], x[2])
  ELSE IF x[2] = 0 THEN SignPi(x[1], x[3])
  ELSE CHOOSE s \in {} : TRUE

SignedInf(s) == IF s = 0 THEN NaN ELSE IF s > 0 THEN PosInf ELSE NegInf

Neg(x) == <<-x[1], -x[2], -x[3], x[4]>>

Add(x, y) ==
  IF IsNaN(x) \/ IsNaN(y) THEN NaN
  ELSE IF IsInf(x) /\ IsInf(y) THEN (IF x = y THEN x ELSE NaN)
  ELSE IF IsInf(x) THEN x
  ELSE IF IsInf(y) THEN y
  ELSE Mk(x[1] * y[4] + y[1] * x[4], x[2] * y[4] + y[2] * x[4],
          x[3] * y[4] + y[3] * x[4], x[4] * y[4])

Sub(x, y) == Add(x, Neg(y))

\* pi*pi and sqrt(2)*pi are outside the number set.
Mul(x, y) ==
  IF IsNaN(x) \/ IsNaN(y) THEN NaN
  ELSE IF x[4] = 0 \/ y[4] = 0 THEN SignedInf(Sign(x) * Sign(y))
  ELSE IF x[3] * y[3] = 0 /\ x[2] * y[3] + x[3] * y[2] = 0 THEN
    Mk(x[1] * y[1] + 2 * x[2] * y[2], x[1] * y[2] + x[2] * y[1],
       x[1] * y[3] + x[3] * y[1], x[4] * y[4])
  ELSE CHOOSE n \in {} : TRUE

\* 1/y for y without pi: 1/((a + b r2)/d) = d (a - b r2)/(a^2 - 2 b^2);
\* 1/0 is +Inf, 1/Inf is 0.
Inv(y) ==
  IF IsNaN(y) THEN NaN
  ELSE IF y[4] = 0 THEN Zero
  ELSE IF y = Zero THEN PosInf
  ELSE IF y[3] = 0 THEN
    Mk(y[4] * y[1], -(y[4] * y[2]), 0, y[1] * y[1] - 2 * y[2] * y[2])
  ELSE CHOOSE n \in {} : TRUE

\* x / y as IEEE division (x/0 is +-Inf; 0/0, 0*Inf and Inf/Inf are NaN);
\* a multiple of pi over a multiple of pi is their ratio.
Div(x, y) ==
  IF IsFinite(x) /\ IsFinite(y) /\ y[3] # 0 /\ y[1] = 0 /\ y[2] = 0
       /\ x[1] = 0 /\ x[2] = 0
    THEN Rat(x[3] * y[4], x[4] * y[3])
  ELSE IF IsInf(x) /\ IsInf(y) THEN NaN
  ELSE Mul(x, Inv(y))

\* IEEE comparisons: every comparison with NaN is false.
Lt(x, y) == ~IsNaN(x) /\ ~IsNaN(y) /\ x # y /\
            (IF IsInf(x) \/ IsInf(y)
               THEN (x = NegInf \/ y = PosInf)
               ELSE Sign(Sub(x, y)) < 0)
Gt(x, y) == Lt(y, x)
Ge(x, y) == ~IsNaN(x) /\ ~IsNaN(y) /\ ~Lt(x, y)
Eq(x, y) == ~IsNaN(x) /\ ~IsNaN(y) /\ x = y

Fabs(x) == IF x[1] < 0 \/ (x[1] = 0 /\ (x[2] < 0 \/ (x[2] = 0 /\ x[3] < 0)))
             THEN (IF Sign(x) < 0 THEN Neg(x) ELSE x)
             ELSE (IF IsNaN(x) \/ Sign(x) >= 0 THEN x ELSE Neg(x))

\* sqrt of a rational n/d that is a square or twice a square of a rational.
Sqrt(x) ==
  IF IsNaN(x) \/ x = PosInf THEN x
  ELSE IF x[2] # 0 \/ x[3] # 0 THEN CHOOSE n \in {} : TRUE
  ELSE IF x[1] < 0 THEN NaN
  ELSE IF \E k \in 0..(x[1] * x[4]) : k * k = x[1] * x[4]
    THEN Rat(CHOOSE k \in 0..(x[1] * x[4]) : k * k = x[1] * x[4], x[4])
  ELSE Mk(0, CHOOSE k \in 0..(x[1] * x[4]) : 2 * k * k = x[1] * x[4], 0, x[4])

\* The angle x as a number of eighth turns (x = k*pi/4), 0..7.
Eighths(x) == ((4 * x[3]) \div x[4]) % 8

IsEighthTurn(x) == IsFinite(x) /\ x[1] = 0 /\ x[2] = 0 /\ (4 * x[3]) % x[4] = 0

CosTable == <<One, Root2Half, Zero, Neg(Root2Half),
              Neg(One), Neg(Root2Half), Zero, Root2Half>>
SinTable == <<Zero, Root2Half, One, Root2Half,
              Zero, Neg(Root2Half), Neg(One), Neg(Root2Half)>>

\* cos and sin of the multiples of pi/4
Cos(x) == IF ~IsFinite(x) THEN NaN
          ELSE IF IsEighthTurn(x) THEN CosTable[Eighths(x) + 1]
          ELSE CHOOSE n \in {} : TRUE
Sin(x) == IF ~IsFinite(x) THEN NaN
          ELSE IF IsEighthTurn(x) THEN SinTable[Eighths(x) + 1]
          ELSE CHOOSE n \in {} : TRUE

\* asin on the values a rotation matrix of the model holds strictly inside (-1, 1).
Asin(x) == IF IsNaN(x) THEN NaN
           ELSE IF x = Zero THEN Zero
           ELSE IF x = Root2Half THEN <<0, 0, 1, 4>>
           ELSE IF x = Neg(Root2Half) THEN <<0, 0, -1, 4>>
           ELSE CHOOSE n \in {} : TRUE

\* atan2 from the signs of y and x, on the directions that are multiples of pi/4.
Atan2Signs(sy, sx, diagonal) ==
  IF sy = 0 THEN (IF sx >= 0 THEN Zero ELSE M_PI)
  ELSE IF sx = 0 THEN <<0, 0, sy, 2>>
  ELSE IF diagonal THEN (IF sx > 0 THEN <<0, 0, sy, 4>> ELSE <<0, 0, 3 * sy, 4>>)
  ELSE CHOOSE n \in {} : TRUE

\* atan2(y, x) in (-pi, pi]
Atan2(y, x) ==
  IF IsNaN(x) \/ IsNaN(y) THEN NaN
  ELSE Atan2Signs(Sign(y), Sign(x), x = y \/ x = Neg(y))

(***************************************************************************)
(* tf::Quaternion, tf::Matrix3x3 and tf::Transform (tf/LinearMath), as the *)
(* publisher uses them.  A quaternion is <<x, y, z, w>>, a vector          *)
(* <<x, y, z>>, a matrix <<row0, row1, row2>>.                             *)
(***************************************************************************)
Quaternion(x, y, z, w) == <<x, y, z, w>>
Vector3(x, y, z) == <<x, y, z>>

\* Quaternion::length2
length2(q) ==
  Add(Add(Add(Mul(q[1], q[1]), Mul(q[2], q[2])), Mul(q[3], q[3])), Mul(q[4], q[4]))

\* Quaternion::operator*=(s)
Scaled(q, s) == <<Mul(q[1], s), Mul(q[2], s), Mul(q[3], s), Mul(q[4], s)>>

\* Quaternion::normalize: *this /= length(), that is *= 1/length()
normalize(q) == Scaled(q, Div(One, Sqrt(length2(q))))

\* Quaternion::setRPY from the cosines and sines of the half angles
setRPYHalf(cr, sr, cp, sp, cy, sy) ==
  <<Sub(Mul(Mul(sr, cp), cy), Mul(Mul(cr, sp), sy)),
    Add(Mul(Mul(cr, sp), cy), Mul(Mul(sr, cp), sy)),
    Sub(Mul(Mul(cr, cp), sy), Mul(Mul(sr, sp), cy)),
    Add(Mul(Mul(cr, cp), cy), Mul(Mul(sr, sp), sy))>>

\* Quaternion::setRPY(roll, pitch, yaw): roll about X, pitch about Y, yaw about Z.
setRPY(roll, pitch, yaw) ==
  setRPYHalf(Cos(Mul(roll, Half)), Sin(Mul(roll, Half)),
             Cos(Mul(pitch, Half)), Sin(Mul(pitch, Half)),
             Cos(Mul(yaw, Half)), Sin(Mul(yaw, Half)))

\* Matrix3x3::setRotation, its setValue from the nine products
setRotationValue(wx, wy, wz, xx, xy, xz, yy, yz, zz) ==
  << <<Sub(One, Add(yy, zz)), Sub(xy, wz), Add(xz, wy)>>,
     <<Add(xy, wz), Sub(One, Add(xx, zz)), Sub(yz, wx)>>,
     <<Sub(xz, wy), Add(yz, wx), Sub(One, Add(xx, yy))>> >>

\* Matrix3x3::setRotation, from xs = x*s, ys = y*s, zs = z*s
setRotationScaled(q, xs, ys, zs) ==
  setRotationValue(Mul(q[4], xs), Mul(q[4], ys), Mul(q[4], zs),
                   Mul(q[1], xs), Mul(q[1], ys), Mul(q[1], zs),
                   Mul(q[2], ys), Mul(q[2], zs), Mul(q[3], zs))

\* Matrix3x3::setRotation, from s = 2/length2(q)
setRotationBy(q, s) == setRotationScaled(q, Mul(q[1], s), Mul(q[2], s), Mul(q[3], s))

\* Matrix3x3::setRotation(q): the basis a Transform stores for the rotation q.
\* It divides by length2(q), so every non-zero q gives a rotation matrix and
\* the zero quaternion gives a matrix of NaN.
setRotation(q) == setRotationBy(q, Div(Two, length2(q)))

\* Matrix3x3::getRotation, trace > 0: s = sqrt(trace + 1), t = 0.5/s
getRotationTrace(m, s, t) ==
  <<Mul(Sub(m[3][2], m[2][3]), t),
    Mul(Sub(m[1][3], m[3][1]), t),
    Mul(Sub(m[2][1], m[1][2]), t),
    Mul(s, Half)>>

\* Matrix3x3::getRotation, trace <= 0, i the largest diagonal entry:
\* temp[i] = s/2, temp[3] = (m[k][j] - m[j][k])*t, temp[j] = (m[j][i] + m[i][j])*t,
\* temp[k] = (m[k][i] + m[i][k])*t
getRotationTemp(n, m, i, j, k, s, t) ==
  IF n = i THEN Mul(s, Half)
  ELSE IF n = 4 THEN Mul(Sub(m[k][j], m[j][k]), t)
  ELSE IF n = j THEN Mul(Add(m[j][i], m[i][j]), t)
  ELSE Mul(Add(m[k][i], m[i][k]), t)

getRotationDiagonal(m, i, j, k, s) ==
  <<getRotationTemp(1, m, i, j, k, s, Div(Half, s)),
    getRotationTemp(2, m, i, j, k, s, Div(Half, s)),
    getRotationTemp(3, m, i, j, k, s, Div(Half, s)),
    getRotationTemp(4, m, i, j, k, s, Div(Half, s))>>

getRotationFrom(m, i) ==
  getRotationDiagonal(m, i, (i % 3) + 1, ((i + 1) % 3) + 1,
    Sqrt(Add(Sub(Sub(m[i][i], m[(i % 3) + 1][(i % 3) + 1]),
                 m[((i + 1) % 3) + 1][((i + 1) % 3) + 1]), One)))

getRotationByTrace(m, trace) ==
  IF Gt(trace, Zero)
    THEN getRotationTrace(m, Sqrt(Add(trace, One)), Div(Half, Sqrt(Add(trace, One))))
    ELSE getRotationFrom(m, IF Lt(m[1][1], m[2][2])
                              THEN (IF Lt(m[2][2], m[3][3]) THEN 3 ELSE 2)
                              ELSE (IF Lt(m[1][1], m[3][3]) THEN 3 ELSE 1))

\* Matrix3x3::getRotation: the quaternion read back from a basis.
getRotation(m) == getRotationByTrace(m, Add(Add(m[1][1], m[2][2]), m[3][3]))

\* Matrix3x3::getEulerYPR away from the singularity, c = cos(pitch)
getRPYRegular(m, pitch, c) ==
  <<Atan2(Div(m[3][2], c), Div(m[3][3], c)),
    pitch,
    Atan2(Div(m[2][1], c), Div(m[1][1], c))>>

\* Matrix3x3::getRPY (getEulerYPR, first solution): <<roll, pitch, yaw>> in radians.
getRPY(m) ==
  IF Ge(Fabs(m[3][1]), One)
    THEN (IF Lt(m[3][1], Zero)
            THEN <<Atan2(m[3][2], m[3][3]), <<0, 0, 1, 2>>, Zero>>
            ELSE <<Atan2(m[3][2], m[3][3]), <<0, 0, -1, 2>>, Zero>>)
    ELSE getRPYRegular(m, Neg(Asin(m[3][1])), Cos(Neg(Asin(m[3][1]))))

\* tf::Transform(q, origin)
Transform(q, origin) == [basis |-> setRotation(q), origin |-> origin]

\* tf::StampedTransform(t, stamp, frame_id, child_frame_id)
StampedTransform(t, stamp, frame_id, child_frame_id) ==
  [basis |-> t.basis, origin |-> t.origin, stamp |-> stamp,
   frame_id |-> frame_id, child_frame_id |-> child_frame_id]

(***************************************************************************)
(* TransformSender: constants.                                             *)
(***************************************************************************)
\* The change level is a uint32_t bit mask: here the set of its set bits.
CHANGE_NOTHING == {}
CHANGE_XYZ == {0}
CHANGE_RPY == {1}
CHANGE_QUAT == {2}
CHANGE_UNITS == {3}
CHANGE_ALL == 0..31

USE_RADIANS == 0
USE_DEGREES == 1

\* Last reading of the clock the model follows.
MaxTime == 1
\* ros::Duration sleeper, the repeat period, in clock units.
Period == 1

NoTransform == [none |-> TRUE]
NoConfig == [none |-> TRUE]

(***************************************************************************)
(* Inputs.  The angles are quarter turns written in the given unit, the    *)
(* quaternions cover zero length, unit length (both signs of w) and        *)
(* lengths other than 1.                                                   *)
(***************************************************************************)
Frames == {<<"world", "base">>, <<"world", "world">>}

StartVectors == {<<I(4), I(5), I(6)>>}
StartQuaternions == {<<Zero, Zero, Zero, Zero>>, <<Zero, Zero, Zero, Two>>}
\* <<yaw, pitch, roll>> as on the command line, in radians
StartEulers == {<<Zero, M_PI, Zero>>}

EditVectors == {<<Zero, Zero, Zero>>, <<I(1), I(2), I(3)>>}
EditQuaternions == {<<Zero, Zero, Zero, Zero>>, <<Zero, Zero, Zero, Neg(One)>>,
                    <<One, One, Zero, Zero>>, <<Zero, One, Zero, Zero>>}
\* <<roll, pitch, yaw>> in quarter turns
EditQuarterTurns == {<<0, 2, 0>>, <<1, 0, 0>>}

\* k quarter turns written in unit u
QuarterTurns(k, u) == IF u = USE_DEGREES THEN I(90 * k) ELSE Mk(0, 0, k, 2)

EditEulers(u) ==
  {<<QuarterTurns(e[1], u), QuarterTurns(e[2], u), QuarterTurns(e[3], u)>> :
     e \in EditQuarterTurns}

Levels == {CHANGE_NOTHING, CHANGE_XYZ, CHANGE_RPY, CHANGE_QUAT, CHANGE_UNITS,
           CHANGE_XYZ \cup CHANGE_RPY, CHANGE_ALL}

\* tf::TransformSenderConfig
Config(v, e, q, units, useq) ==
  [x |-> v[1], y |-> v[2], z |-> v[3],
   roll |-> e[1], pitch |-> e[2], yaw |-> e[3],
   qx |-> q[1], qy |-> q[2], qz |-> q[3], qw |-> q[4],
   angle_units |-> units, use_quaternion |-> useq]

\* The configs the server can hand to the callback while the unit is u.
Configs(u) ==
  {Config(v, e, q, units, useq) :
     v \in EditVectors, e \in EditEulers(u), q \in EditQuaternions,
     units \in {USE_RADIANS, USE_DEGREES}, useq \in BOOLEAN}

\* The limits the server starts with: roll, pitch and yaw in -pi..pi, the
\* other doubles unbounded.
InitialMin ==
  [x |-> NegInf, y |-> NegInf, z |-> NegInf,
   roll |-> Neg(M_PI), pitch |-> Neg(M_PI), yaw |-> Neg(M_PI),
   qx |-> NegInf, qy |-> NegInf, qz |-> NegInf, qw |-> NegInf,
   angle_units |-> USE_RADIANS, use_quaternion |-> FALSE]
InitialMax ==
  [x |-> PosInf, y |-> PosInf, z |-> PosInf,
   roll |-> M_PI, pitch |-> M_PI, yaw |-> M_PI,
   qx |-> PosInf, qy |-> PosInf, qz |-> PosInf, qw |-> PosInf,
   angle_units |-> USE_DEGREES, use_quaternion |-> TRUE]

(***************************************************************************)
(* State.                                                                  *)
(***************************************************************************)
VARIABLES
  pc,            \* where main() is: "main", "reconfInit", "send", "spin", "sleep", "exit"
  transform_,    \* TransformSender::transform_ (NoTransform before construction)
  angle_units_,  \* TransformSender::angle_units_
  min_conf,      \* the reconfigure server's lower limits
  max_conf,      \* the reconfigure server's upper limits
  cb,            \* the server's call of reconfCallback: "idle", "pending", "returned"
  config,        \* the config the callback gets by reference (NoConfig outside a call)
  level,         \* the level the callback gets (it stays until the next call)
  log,           \* the severities of the messages the last step logged
  sent,          \* the message send() hands to the broadcaster, until main moves on
  now            \* ros::Time::now()

vars == <<pc, transform_, angle_units_, min_conf, max_conf, cb, config, level, log, sent, now>>

Constructed == transform_ # NoTransform

getOrigin(t) == t.origin
getBasis(t) == t.basis
\* Transform::getRotation: the quaternion of the basis
Rotation(t) == getRotation(t.basis)

(***************************************************************************)
(* TransformSender                                                         *)
(***************************************************************************)
toDegrees(rpy) ==
  <<Div(Mul(rpy[1], I(180)), M_PI),
    Div(Mul(rpy[2], I(180)), M_PI),
    Div(Mul(rpy[3], I(180)), M_PI)>>

\* toRadians with 90 where the code divides by 180: C6 fails of it.
toRadiansBy90(rpy) ==
  <<Mul(Div(rpy[1], I(90)), M_PI),
    Mul(Div(rpy[2], I(90)), M_PI),
    Mul(Div(rpy[3], I(90)), M_PI)>>

toRadians(rpy) ==
  <<Mul(Div(rpy[1], I(180)), M_PI),
    Mul(Div(rpy[2], I(180)), M_PI),
    Mul(Div(rpy[3], I(180)), M_PI)>>

\* reconfRPYLimits with the two branches exchanged: C9 fails of it.
reconfRPYLimitsSwapped(units, lo, hi) ==
  IF units = USE_RADIANS
    THEN <<[lo EXCEPT !.roll = Neg(I(180)), !.pitch = Neg(I(180)), !.yaw = Neg(I(180))],
           [hi EXCEPT !.roll = I(180), !.pitch = I(180), !.yaw = I(180)]>>
    ELSE <<[lo EXCEPT !.roll = Neg(M_PI), !.pitch = Neg(M_PI), !.yaw = Neg(M_PI)],
           [hi EXCEPT !.roll = M_PI, !.pitch = M_PI, !.yaw = M_PI]>>

\* reconfRPYLimits: <<min_conf, max_conf>> for the unit `units`
reconfRPYLimits(units, lo, hi) ==
  IF units = USE_RADIANS
    THEN <<[lo EXCEPT !.roll = Neg(M_PI), !.pitch = Neg(M_PI), !.yaw = Neg(M_PI)],
           [hi EXCEPT !.roll = M_PI, !.pitch = M_PI, !.yaw = M_PI]>>
    ELSE <<[lo EXCEPT !.roll = Neg(I(180)), !.pitch = Neg(I(180)), !.yaw = Neg(I(180))],
           [hi EXCEPT !.roll = I(180), !.pitch = I(180), !.yaw = I(180)]>>

\* What one case of the callback leaves: the object's fields and the config.
Result(t, units, lo, hi, cfg, msgs) ==
  [transform_ |-> t, angle_units_ |-> units, min_conf |-> lo, max_conf |-> hi,
   config |-> cfg, log |-> msgs]

Unchanged(cfg) == Result(transform_, angle_units_, min_conf, max_conf, cfg, <<>>)

\* config.x = ...; config.y = ...; config.z = ...
WithXYZ(cfg, v) == [cfg EXCEPT !.x = v[1], !.y = v[2], !.z = v[3]]

\* config.roll = RPY[0]; config.pitch = RPY[1]; config.yaw = RPY[2]
WithRPY(cfg, RPY) == [cfg EXCEPT !.roll = RPY[1], !.pitch = RPY[2], !.yaw = RPY[3]]

\* config.qw = q.w(); config.qx = q.x(); config.qy = q.y(); config.qz = q.z()
WithQuaternion(cfg, q) == [cfg EXCEPT !.qw = q[4], !.qx = q[1], !.qy = q[2], !.qz = q[3]]

\* if (units == USE_DEGREES) toDegrees(RPY)
InDegreesIf(units, RPY) == IF units = USE_DEGREES THEN toDegrees(RPY) ELSE RPY

\* if (angle_units_ == USE_DEGREES) toRadians(RPY)
InRadiansIf(units, RPY) == IF units = USE_DEGREES THEN toRadians(RPY) ELSE RPY

\* The rebuilt transform keeping the old stamp: C17 fails of it.
RestampedWithOldStamp(t) ==
  StampedTransform(t, transform_.stamp, transform_.frame_id, transform_.child_frame_id)

\* The re-stamping with the two frame ids exchanged: C12 fails of it.
RestampedFramesExchanged(t) ==
  StampedTransform(t, now, transform_.child_frame_id, transform_.frame_id)

\* transform_ = StampedTransform(t, ros::Time::now(), frame_id_, child_frame_id_)
Restamped(t) ==
  StampedTransform(t, now, transform_.frame_id, transform_.child_frame_id)

\* case CHANGE_ALL
ChangeAll(cfg) ==
  Unchanged(WithQuaternion(
              WithRPY(WithXYZ(cfg, getOrigin(transform_)),
                      InDegreesIf(angle_units_, getRPY(getBasis(transform_)))),
              Rotation(transform_)))

\* case CHANGE_XYZ building the transform with the identity rotation instead
\* of transform_.getRotation(): C5 fails of it.
ChangeXYZIdentity(cfg) ==
  Result(Restamped(Transform(Quaternion(Zero, Zero, Zero, One),
                             Vector3(cfg.x, cfg.y, cfg.z))),
         angle_units_, min_conf, max_conf, cfg, <<>>)

\* case CHANGE_XYZ
ChangeXYZ(cfg) ==
  Result(Restamped(Transform(Rotation(transform_), Vector3(cfg.x, cfg.y, cfg.z))),
         angle_units_, min_conf, max_conf, cfg, <<>>)

\* case CHANGE_RPY, after transform_ is assigned st
ChangeRPYStored(cfg, st) ==
  Result(st, angle_units_, min_conf, max_conf, WithQuaternion(cfg, Rotation(st)), <<>>)

\* case CHANGE_RPY, from RPY in radians
ChangeRPYTo(cfg, RPY) ==
  ChangeRPYStored(cfg, Restamped(Transform(setRPY(RPY[1], RPY[2], RPY[3]),
                                           getOrigin(transform_))))

\* case CHANGE_RPY
ChangeRPY(cfg) ==
  ChangeRPYTo(cfg, InRadiansIf(angle_units_, <<cfg.roll, cfg.pitch, cfg.yaw>>))

\* q.length2() > 1.0 + DBL_EPSILON || q.length2() < 1.0 - DBL_EPSILON.
\* DBL_EPSILON is below every gap of the number set, so the test reads
\* length2 > 1 || length2 < 1.
NotNormalized(len2) == Gt(len2, One) \/ Lt(len2, One)

\* The check that takes the previous rotation for a zero quaternion without
\* a message: C19 fails of it.
CheckedQuaternionSilent(q, len2) ==
  IF Eq(len2, Zero) THEN <<Rotation(transform_), <<>> >>
  ELSE IF NotNormalized(len2) THEN <<normalize(q), <<"WARN">> >>
  ELSE <<q, <<>> >>

\* The check without the test for zero length: C2 fails of it.
CheckedQuaternionNoZeroTest(q, len2) ==
  IF NotNormalized(len2) THEN <<normalize(q), <<"WARN">> >>
  ELSE <<q, <<>> >>

\* The check that warns and goes on with q as given: C3 fails of it.
CheckedQuaternionNoNormalize(q, len2) ==
  IF Eq(len2, Zero) THEN <<Rotation(transform_), <<"ERROR">> >>
  ELSE IF NotNormalized(len2) THEN <<q, <<"WARN">> >>
  ELSE <<q, <<>> >>

\* case CHANGE_QUAT: the quaternion the case goes on with and what it logs
CheckedQuaternion(q, len2) ==
  IF Eq(len2, Zero) THEN <<Rotation(transform_), <<"ERROR">> >>
  ELSE IF NotNormalized(len2) THEN <<normalize(q), <<"WARN">> >>
  ELSE <<q, <<>> >>

\* case CHANGE_QUAT without the reset of the checkbox: C18 fails of it.
ChangeQuatStoredNoReset(cfg, q, msgs, st) ==
  Result(st, angle_units_, min_conf, max_conf,
         WithRPY(WithQuaternion(cfg, q), InDegreesIf(angle_units_, getRPY(getBasis(st)))),
         msgs)

\* case CHANGE_QUAT writing the quaternion fields as if q's components came
\* in the order w, x, y, z: C15 fails of it.
ChangeQuatStoredWFirst(cfg, q, msgs, st) ==
  Result(st, angle_units_, min_conf, max_conf,
         [WithRPY([cfg EXCEPT !.qw = q[1], !.qx = q[2], !.qy = q[3], !.qz = q[4]],
                  InDegreesIf(angle_units_, getRPY(getBasis(st))))
            EXCEPT !.use_quaternion = FALSE],
         msgs)

\* case CHANGE_QUAT, after transform_ is assigned st
ChangeQuatStored(cfg, q, msgs, st) ==
  Result(st, angle_units_, min_conf, max_conf,
         [WithRPY(WithQuaternion(cfg, q), InDegreesIf(angle_units_, getRPY(getBasis(st))))
            EXCEPT !.use_quaternion = FALSE],
         msgs)

\* case CHANGE_QUAT, from the checked quaternion
ChangeQuatTo(cfg, checked) ==
  ChangeQuatStored(cfg, checked[1], checked[2],
                   Restamped(Transform(checked[1], getOrigin(transform_))))

\* case CHANGE_QUAT
ChangeQuat(cfg) ==
  ChangeQuatTo(cfg, CheckedQuaternion(Quaternion(cfg.qx, cfg.qy, cfg.qz, cfg.qw),
                                      length2(Quaternion(cfg.qx, cfg.qy, cfg.qz, cfg.qw))))

\* case CHANGE_UNITS stamping the transform as the editing cases do: C7 fails of it.
ChangeUnitsRestamping(cfg, units, limits) ==
  Result(Restamped(transform_), units, limits[1], limits[2],
         WithRPY(IF units = USE_DEGREES THEN [cfg EXCEPT !.angle_units = units] ELSE cfg,
                 InDegreesIf(units, getRPY(getBasis(transform_)))),
         <<"INFO">>)

\* case CHANGE_UNITS, the units differ: limits <<min_conf, max_conf>> already set
ChangeUnitsTo(cfg, units, limits) ==
  Result(transform_, units, limits[1], limits[2],
         WithRPY(IF units = USE_DEGREES THEN [cfg EXCEPT !.angle_units = units] ELSE cfg,
                 InDegreesIf(units, getRPY(getBasis(transform_)))),
         <<"INFO">>)

\* case CHANGE_UNITS without the break on an unchanged unit: C8 fails of it.
ChangeUnitsNoBreak(cfg) ==
  ChangeUnitsTo(cfg, cfg.angle_units,
                reconfRPYLimits(cfg.angle_units, min_conf, max_conf))

\* case CHANGE_UNITS
ChangeUnits(cfg) ==
  IF angle_units_ = cfg.angle_units THEN Unchanged(cfg)
  ELSE ChangeUnitsTo(cfg, cfg.angle_units,
                     reconfRPYLimits(cfg.angle_units, min_conf, max_conf))

\* switch(level): a level that is no case label falls through the switch
SwitchCases(cfg, lvl) ==
  IF lvl = CHANGE_ALL THEN ChangeAll(cfg)
  ELSE IF lvl = CHANGE_XYZ THEN ChangeXYZ(cfg)
  ELSE IF lvl = CHANGE_RPY THEN ChangeRPY(cfg)
  ELSE IF lvl = CHANGE_QUAT THEN ChangeQuat(cfg)
  ELSE IF lvl = CHANGE_UNITS THEN ChangeUnits(cfg)
  ELSE Unchanged(cfg)

\* reconfCallback: ROS_INFO_STREAM("Level: ...") and the switch
Switch(cfg, lvl) ==
  [SwitchCases(cfg, lvl) EXCEPT !.log = <<"INFO">> \o @]

(***************************************************************************)
(* main() and the callbacks it serves.                                     *)
(***************************************************************************)
Init ==
  /\ pc = "main"
  /\ transform_ = NoTransform
  /\ angle_units_ = USE_RADIANS
  /\ min_conf = InitialMin
  /\ max_conf = InitialMax
  /\ cb = "idle"
  /\ config = NoConfig
  /\ level = CHANGE_NOTHING
  /\ log = <<>>
  /\ sent = NoTransform
  /\ now = 0

\* argc == 11: x y z qx qy qz qw frame_id child_frame_id period
MainQuaternion ==
  /\ pc = "main"
  /\ \E v \in StartVectors, q \in StartQuaternions, f \in Frames :
       \* strcmp(frame_id, child_frame_id) == 0: ROS_FATAL, and main goes on
       /\ log' = IF f[1] = f[2] THEN <<"FATAL">> ELSE <<>>
       \* the stamp is ros::Time() + sleeper
       /\ transform_' = StampedTransform(Transform(Quaternion(q[1], q[2], q[3], q[4]),
                                                   Vector3(v[1], v[2], v[3])),
                                         Period, f[1], f[2])
  /\ angle_units_' = USE_RADIANS
  /\ pc' = "reconfInit"
  /\ UNCHANGED <<min_conf, max_conf, cb, config, level, sent, now>>

\* argc == 10: x y z yaw pitch roll frame_id child_frame_id period
MainEuler ==
  /\ pc = "main"
  /\ \E v \in StartVectors, e \in StartEulers, f \in Frames :
       /\ log' = IF f[1] = f[2] THEN <<"FATAL">> ELSE <<>>
       /\ transform_' = StampedTransform(Transform(setRPY(e[3], e[2], e[1]),
                                                   Vector3(v[1], v[2], v[3])),
                                         Period, f[1], f[2])
  /\ angle_units_' = USE_RADIANS
  /\ pc' = "reconfInit"
  /\ UNCHANGED <<min_conf, max_conf, cb, config, level, sent, now>>

\* any other argc: usage, return -1
MainUsage ==
  /\ pc = "main"
  /\ pc' = "exit"
  /\ log' = <<"ERROR">>
  /\ UNCHANGED <<transform_, angle_units_, min_conf, max_conf, cb, config, level, sent, now>>

\* reconfInit: setCallback calls the callback at once with the server's config
\* and every level bit set.
reconfInit ==
  /\ pc = "reconfInit"
  /\ cb = "idle"
  /\ \E cfg \in Configs(angle_units_) : config' = cfg
  /\ level' = CHANGE_ALL
  /\ cb' = "pending"
  /\ log' = <<>>
  /\ UNCHANGED <<pc, transform_, angle_units_, min_conf, max_conf, sent, now>>

\* send handing the transform to the broadcaster without writing the stamp:
\* C11 fails of it.
sendKeepingStamp ==
  /\ pc = "send"
  /\ sent' = transform_
  /\ log' = <<"DEBUG">>
  /\ pc' = "spin"
  /\ UNCHANGED <<transform_, angle_units_, min_conf, max_conf, cb, config, level, now>>

\* send(ros::Time::now() + sleeper)
send ==
  /\ pc = "send"
  /\ transform_' = [transform_ EXCEPT !.stamp = now + Period]
  /\ sent' = transform_'
  /\ log' = <<"DEBUG">>
  /\ pc' = "spin"
  /\ UNCHANGED <<angle_units_, min_conf, max_conf, cb, config, level, now>>

\* A request served wherever main is, as a spinner thread would serve it:
\* C14 fails of it.
RequestFromAnotherThread ==
  /\ pc \in {"send", "spin", "sleep"}
  /\ cb = "idle"
  /\ \E cfg \in Configs(angle_units_), lvl \in Levels :
       /\ config' = cfg
       /\ level' = lvl
  /\ cb' = "pending"
  /\ sent' = NoTransform
  /\ log' = <<>>
  /\ UNCHANGED <<pc, transform_, angle_units_, min_conf, max_conf, now>>

\* spinOnce: the server takes a reconfigure request and calls the callback
\* with the requested config and the level of the changed parameters.
Request ==
  /\ pc = "spin"
  /\ cb = "idle"
  /\ \E cfg \in Configs(angle_units_), lvl \in Levels :
       /\ config' = cfg
       /\ level' = lvl
  /\ cb' = "pending"
  /\ sent' = NoTransform
  /\ log' = <<>>
  /\ UNCHANGED <<pc, transform_, angle_units_, min_conf, max_conf, now>>

\* reconfCallback(config, level)
reconfCallback ==
  /\ cb = "pending"
  /\ \E r \in {Switch(config, level)} :
         /\ transform_' = r.transform_
         /\ angle_units_' = r.angle_units_
         /\ min_conf' = r.min_conf
         /\ max_conf' = r.max_conf
         /\ config' = r.config
         /\ log' = r.log
  /\ cb' = "returned"
  /\ UNCHANGED <<pc, level, sent, now>>

\* The callback returns: the server keeps the config, which this program
\* does not read again.
Return ==
  /\ cb = "returned"
  /\ cb' = "idle"
  /\ config' = NoConfig
  /\ log' = <<>>
  /\ pc' = IF pc = "reconfInit" THEN "send" ELSE pc
  /\ UNCHANGED <<transform_, angle_units_, min_conf, max_conf, level, sent, now>>

\* spinOnce returns
SpinDone ==
  /\ pc = "spin"
  /\ cb = "idle"
  /\ pc' = "sleep"
  /\ sent' = NoTransform
  /\ log' = <<>>
  /\ UNCHANGED <<transform_, angle_units_, min_conf, max_conf, cb, config, level, now>>

\* sleeper.sleep()
Sleep ==
  /\ pc = "sleep"
  /\ now + Period <= MaxTime
  /\ now' = now + Period
  /\ pc' = "send"
  /\ log' = <<>>
  /\ UNCHANGED <<transform_, angle_units_, min_conf, max_conf, cb, config, level, sent>>

\* node_.ok() is false at the loop test: return 0
Shutdown ==
  /\ pc = "send"
  /\ pc' = "exit"
  /\ log' = <<>>
  /\ UNCHANGED <<transform_, angle_units_, min_conf, max_conf, cb, config, level, sent, now>>

Next ==
  \/ MainQuaternion
  \/ MainEuler
  \/ MainUsage
  \/ reconfInit
  \/ send
  \/ Request
  \/ reconfCallback
  \/ Return
  \/ SpinDone
  \/ Sleep
  \/ Shutdown

Spec == Init /\ [][Next]_vars

(***************************************************************************)
(* Properties.                                                             *)
(***************************************************************************)
\* The step in which the server's call of reconfCallback runs: before it
\* config holds the incoming config, after it the snapshot handed back.
CallStep == cb = "pending" /\ cb' = "returned"

\* A step of send()
SendStep == pc = "send" /\ pc' = "spin"

ConfigXYZ(cfg) == <<cfg.x, cfg.y, cfg.z>>
ConfigRPY(cfg) == <<cfg.roll, cfg.pitch, cfg.yaw>>
ConfigQuaternion(cfg) == <<cfg.qx, cfg.qy, cfg.qz, cfg.qw>>

\* An angle of d degrees in radians: d * (pi/180)
Radians(d) == Mul(d, <<0, 0, 1, 180>>)

\* roll, pitch and yaw written in unit `units`, in radians
RPYInRadians(units, rpy) ==
  IF units = USE_DEGREES THEN <<Radians(rpy[1]), Radians(rpy[2]), Radians(rpy[3])>>
  ELSE rpy

\* The basis of the roll-pitch-yaw composition of rpy (radians)
BasisOfRPY(rpy) == setRotation(setRPY(rpy[1], rpy[2], rpy[3]))

\* The snapshot cfg agrees with the engine state (transform t, unit units).
SnapshotConsistent(cfg, t, units) ==
  /\ ConfigXYZ(cfg) = t.origin
  /\ setRotation(ConfigQuaternion(cfg)) = t.basis
  /\ BasisOfRPY(RPYInRadians(units, ConfigRPY(cfg))) = t.basis
  /\ cfg.angle_units = units

\* C1: after every reconfiguration call the returned snapshot is consistent
\* with the engine state: x/y/z equal the translation, qx..qw denote the
\* stored rotation, roll/pitch/yaw are that rotation in the active unit and
\* angle_units equals the active unit.
C1_SnapshotConsistentAfterCall ==
  cb = "returned" => SnapshotConsistent(config, transform_, angle_units_)

\* C2: a CHANGE_QUAT call whose quaternion has squared norm 0 leaves the
\* Transform's rotation and translation as they were before the call.
C2_ZeroQuaternionRejected ==
  [][(CallStep /\ level = CHANGE_QUAT /\ length2(ConfigQuaternion(config)) = Zero)
       => (transform_'.basis = transform_.basis /\ transform_'.origin = transform_.origin)]_vars

\* A zero quaternion was rejected while a rotation other than the identity
\* was stored and the unit was degrees.
C2_Witness ==
  /\ cb = "returned" /\ level = CHANGE_QUAT /\ log = <<"INFO", "ERROR">>
  /\ angle_units_ = USE_DEGREES
  /\ transform_.basis = setRotation(Quaternion(Zero, One, Zero, Zero))

\* n is q divided by its length
IsNormalized(n, q) ==
  /\ length2(n) = One
  /\ \A i \in 1..4 : Mul(n[i], Sqrt(length2(q))) = q[i]

\* C3: a CHANGE_QUAT call with a non-zero quaternion q whose squared norm is
\* not 1 stores the rotation of q divided by its length and reports that
\* normalized quaternion in qx..qw; with squared norm 1, q is stored and
\* reported as given.
C3_QuaternionNormalized ==
  [][(CallStep /\ level = CHANGE_QUAT /\ length2(ConfigQuaternion(config)) # Zero)
       => IF length2(ConfigQuaternion(config)) = One
            THEN /\ ConfigQuaternion(config') = ConfigQuaternion(config)
                 /\ transform_'.basis = setRotation(ConfigQuaternion(config))
            ELSE /\ IsNormalized(ConfigQuaternion(config'), ConfigQuaternion(config))
                 /\ transform_'.basis = setRotation(ConfigQuaternion(config'))]_vars

\* The quaternion (1, 1, 0, 0) was normalized with a warning.
C3_Witness ==
  /\ cb = "returned" /\ level = CHANGE_QUAT /\ log = <<"INFO", "WARN">>
  /\ ConfigQuaternion(config) = <<Root2Half, Root2Half, Zero, Zero>>

\* A unit quaternion was stored as given, without a message.
C3_WitnessUnit ==
  /\ cb = "returned" /\ level = CHANGE_QUAT /\ log = <<"INFO">>
  /\ ConfigQuaternion(config) = <<Zero, Zero, Zero, Neg(One)>>

\* C4: in every reachable state the Transform's rotation is a unit quaternion.
C4_RotationIsUnit ==
  Constructed => length2(Rotation(transform_)) = One

\* C5: a CHANGE_XYZ call sets the translation to the config's (x, y, z) and
\* leaves rotation, frame ids, angle units and the snapshot's roll/pitch/yaw
\* and quaternion alone; nothing but a call changes translation or rotation,
\* and a publish sends the transform as it is with the stamp now + period.
C5_TranslationEdit ==
  [][/\ (CallStep /\ level = CHANGE_XYZ)
          => /\ transform_'.origin = ConfigXYZ(config)
             /\ transform_'.basis = transform_.basis
             /\ transform_'.frame_id = transform_.frame_id
             /\ transform_'.child_frame_id = transform_.child_frame_id
             /\ angle_units_' = angle_units_
             /\ ConfigRPY(config') = ConfigRPY(config)
             /\ ConfigQuaternion(config') = ConfigQuaternion(config)
     /\ (Constructed /\ ~CallStep)
          => /\ transform_'.origin = transform_.origin
             /\ transform_'.basis = transform_.basis
     /\ SendStep
          => sent' = [transform_ EXCEPT !.stamp = now + Period]]_vars

\* The publish after the edit (1, 2, 3) sends that translation with the
\* start-up rotation and the stamp of the publish.
C5_Witness ==
  /\ sent # NoTransform /\ level = CHANGE_XYZ
  /\ sent.origin = <<I(1), I(2), I(3)>>
  /\ sent.basis = setRotation(Quaternion(Zero, One, Zero, Zero))
  /\ sent.stamp = now + Period
  /\ now > 0

\* C6: a CHANGE_RPY call reads roll, pitch, yaw in the active unit, sets the
\* rotation to their roll-pitch-yaw composition, keeps the translation and
\* sets qx..qw to the resulting rotation, so that the snapshot's quaternion
\* and Euler fields describe the same rotation.
C6_EulerEdit ==
  [][(CallStep /\ level = CHANGE_RPY)
       => /\ transform_'.basis = BasisOfRPY(RPYInRadians(angle_units_, ConfigRPY(config)))
          /\ transform_'.origin = transform_.origin
          /\ ConfigQuaternion(config') = Rotation(transform_')
          /\ setRotation(ConfigQuaternion(config'))
               = BasisOfRPY(RPYInRadians(angle_units_', ConfigRPY(config')))]_vars

\* A roll of 90 degrees was applied while the unit was degrees.
C6_Witness ==
  /\ cb = "returned" /\ level = CHANGE_RPY /\ angle_units_ = USE_DEGREES
  /\ ConfigRPY(config) = <<I(90), Zero, Zero>>
  /\ ConfigQuaternion(config) = <<Root2Half, Zero, Zero, Root2Half>>

\* C7: a CHANGE_ALL or CHANGE_UNITS call leaves the Transform (translation,
\* rotation, stamp, frame ids) as it was.
C7_NoTransformMutation ==
  [][(CallStep /\ level \in {CHANGE_ALL, CHANGE_UNITS}) => transform_' = transform_]_vars

\* The unit was changed to degrees after a publish, a rotation other than
\* the identity stored.
C7_Witness ==
  /\ cb = "returned" /\ level = CHANGE_UNITS /\ log = <<"INFO", "INFO">>
  /\ angle_units_ = USE_DEGREES
  /\ transform_.stamp = now + Period
  /\ transform_.basis = setRotation(Quaternion(Zero, One, Zero, Zero))

\* C8: a CHANGE_UNITS call asking for the active unit changes nothing: not
\* the Transform, the active unit, the limits, or any field of the config.
C8_SameUnitNoOp ==
  [][(CallStep /\ level = CHANGE_UNITS /\ config.angle_units = angle_units_)
       => UNCHANGED <<transform_, angle_units_, min_conf, max_conf, config>>]_vars

\* Degrees were asked for while degrees were active.
C8_Witness ==
  /\ cb = "returned" /\ level = CHANGE_UNITS /\ log = <<"INFO">>
  /\ angle_units_ = USE_DEGREES /\ config.angle_units = USE_DEGREES

\* The limit of roll, pitch and yaw in unit `units`
RPYLimit(units) == IF units = USE_RADIANS THEN M_PI ELSE I(180)

\* C9: the limits of roll, pitch and yaw are -pi/+pi while the active unit is
\* radians and -180/+180 while it is degrees, and the limits of the other
\* fields stay as the server started with them.
C9_LimitsMatchUnits ==
  /\ min_conf = [InitialMin EXCEPT !.roll = Neg(RPYLimit(angle_units_)),
                                   !.pitch = Neg(RPYLimit(angle_units_)),
                                   !.yaw = Neg(RPYLimit(angle_units_))]
  /\ max_conf = [InitialMax EXCEPT !.roll = RPYLimit(angle_units_),
                                   !.pitch = RPYLimit(angle_units_),
                                   !.yaw = RPYLimit(angle_units_)]

\* The unit was changed to degrees.
C9_Witness ==
  /\ cb = "returned" /\ level = CHANGE_UNITS /\ log = <<"INFO", "INFO">>
  /\ angle_units_ = USE_DEGREES
  /\ max_conf.roll = I(180) /\ min_conf.yaw = Neg(I(180))

\* C10: after a CHANGE_ALL call every field of the snapshot mirrors the
\* engine state, whatever came in: x/y/z the translation, roll/pitch/yaw the
\* rotation in the active unit, qx..qw the rotation, angle_units the active
\* unit.
C10_InitializeMirrors ==
  (cb = "returned" /\ level = CHANGE_ALL)
    => /\ ConfigXYZ(config) = getOrigin(transform_)
       /\ ConfigQuaternion(config) = Rotation(transform_)
       /\ RPYInRadians(angle_units_, ConfigRPY(config)) = getRPY(getBasis(transform_))
       /\ config.angle_units = angle_units_

\* C11: send(time) sets the Transform's stamp to the time main passes
\* (now + period) and publishes the Transform with that stamp; translation,
\* rotation, frame ids and the active unit stay as they were.
C11_SendStampsAndPublishes ==
  [][SendStep
       => /\ transform_'.stamp = now + Period
          /\ sent' = transform_'
          /\ transform_'.origin = transform_.origin
          /\ transform_'.basis = transform_.basis
          /\ transform_'.frame_id = transform_.frame_id
          /\ transform_'.child_frame_id = transform_.child_frame_id
          /\ angle_units_' = angle_units_]_vars

\* A publish after a quaternion edit had stamped the transform with the
\* time of the edit: the published stamp is the publish time.
C11_Witness ==
  /\ sent # NoTransform /\ pc = "spin" /\ level = CHANGE_QUAT
  /\ now > 0
  /\ sent.stamp = now + Period
  /\ transform_.stamp = now + Period

\* The step in which main constructs the TransformSender
ConstructionStep == pc = "main" /\ pc' = "reconfInit"

\* C12: frame_id and child_frame_id are those of the command line at
\* construction, and no later step (edit of any kind, publish) changes them.
C12_FrameIdsFixed ==
  [][/\ ConstructionStep
          => <<transform_'.frame_id, transform_'.child_frame_id>> \in Frames
     /\ Constructed
          => /\ transform_'.frame_id = transform_.frame_id
             /\ transform_'.child_frame_id = transform_.child_frame_id]_vars

\* A publish after an Euler edit still carries the start-up frame ids.
C12_Witness ==
  /\ sent # NoTransform /\ level = CHANGE_RPY /\ now > 0
  /\ sent.frame_id = "world" /\ sent.child_frame_id = "base"
  /\ sent.basis # setRotation(Quaternion(Zero, Zero, Zero, One))

\* C13: with frame_id equal to child_frame_id the process does not start:
\* no TransformSender is constructed and no transform is published.
C13_EqualFramesRefused ==
  /\ Constructed => transform_.frame_id # transform_.child_frame_id
  /\ sent # NoTransform => sent.frame_id # sent.child_frame_id

UnitQuatReturned ==
  /\ cb = "returned" /\ level = CHANGE_QUAT /\ log = <<"INFO">>
  /\ length2(ConfigQuaternion(config)) = One

\* The quaternion a CHANGE_ALL call reports when it gets the config cfg
InitializeQuaternion(cfg) == ConfigQuaternion(ChangeAll(cfg).config)

\* C15 as stated: for a unit quaternion q, CHANGE_QUAT with q followed at
\* once by CHANGE_ALL reports qx..qw equal to q component for component.
C15_RoundTripExact ==
  UnitQuatReturned => InitializeQuaternion(config) = ConfigQuaternion(config)

\* C15 amended: for a unit quaternion q, CHANGE_QUAT with q followed at once
\* by CHANGE_ALL reports q or -q, a quaternion of the same rotation as q.
C15_RoundTripUpToSign ==
  UnitQuatReturned
    => /\ \/ InitializeQuaternion(config) = ConfigQuaternion(config)
          \/ InitializeQuaternion(config) = Scaled(ConfigQuaternion(config), Neg(One))
       /\ setRotation(InitializeQuaternion(config)) = setRotation(ConfigQuaternion(config))

\* The edit (0, 0, 0, -1) was reported as given while CHANGE_ALL reports
\* (0, 0, 0, 1).
C15_Witness ==
  /\ UnitQuatReturned
  /\ ConfigQuaternion(config) = <<Zero, Zero, Zero, Neg(One)>>
  /\ InitializeQuaternion(config) = <<Zero, Zero, Zero, One>>

\* The step leaves what the case result r leaves.
Applies(r) ==
  /\ transform_' = r.transform_
  /\ angle_units_' = r.angle_units_
  /\ min_conf' = r.min_conf
  /\ max_conf' = r.max_conf
  /\ config' = r.config

\* C16: every call applies one of the five policies to the incoming config,
\* whatever the level; in particular a level with the CHANGE_XYZ bit among
\* several bits applies the translation of the config, and no payload is
\* dropped.
C16_OnePolicyPerCall ==
  [][CallStep
       => /\ \/ Applies(ChangeAll(config))
             \/ Applies(ChangeXYZ(config))
             \/ Applies(ChangeRPY(config))
             \/ Applies(ChangeQuat(config))
             \/ Applies(ChangeUnits(config))
          /\ (level # CHANGE_ALL /\ CHANGE_XYZ \subseteq level)
               => transform_'.origin = ConfigXYZ(config)]_vars

\* The five levels that are case labels of the switch
CaseLabels == {CHANGE_ALL, CHANGE_XYZ, CHANGE_RPY, CHANGE_QUAT, CHANGE_UNITS}

\* C17 as stated: after a call of any change kind the Transform's stamp is
\* the time of the call.
C17_EveryEditStamps ==
  [][(CallStep /\ level \in CaseLabels) => transform_'.stamp = now]_vars

\* C17 amended: a CHANGE_XYZ, CHANGE_RPY or CHANGE_QUAT call (a rejected zero
\* quaternion included) stamps the Transform with the time of the call, a
\* CHANGE_ALL or CHANGE_UNITS call leaves the stamp as it was, and a publish
\* stamps it with the publish time.
C17_EditsThatRebuildStamp ==
  [][/\ (CallStep /\ level \in {CHANGE_XYZ, CHANGE_RPY, CHANGE_QUAT})
          => transform_'.stamp = now
     /\ (CallStep /\ level \in {CHANGE_ALL, CHANGE_UNITS})
          => transform_'.stamp = transform_.stamp
     /\ SendStep => transform_'.stamp = now + Period]_vars

\* A rejected zero quaternion stamped the transform at a time after the
\* first publish.
C17_Witness ==
  /\ cb = "returned" /\ level = CHANGE_QUAT /\ log = <<"INFO", "ERROR">>
  /\ now > 0 /\ transform_.stamp = now

\* C18: use_quaternion is false after every CHANGE_QUAT call (accepted,
\* normalized or rejected); a call of any other change kind leaves the
\* incoming use_quaternion as it came.
C18_UseQuaternionFlag ==
  [][/\ (CallStep /\ level = CHANGE_QUAT) => config'.use_quaternion = FALSE
     /\ (CallStep /\ level \in {CHANGE_ALL, CHANGE_XYZ, CHANGE_RPY, CHANGE_UNITS})
          => config'.use_quaternion = config.use_quaternion]_vars

\* Reset after a normalized quaternion.
C18_Witness ==
  /\ cb = "returned" /\ level = CHANGE_QUAT /\ log = <<"INFO", "WARN">>
  /\ config.use_quaternion = FALSE

\* Left set by an Euler edit.
C18_WitnessKept ==
  /\ cb = "returned" /\ level = CHANGE_RPY /\ config.use_quaternion = TRUE

\* The number of messages of severity sev in the sequence msgs
Count(sev, msgs) == Cardinality({i \in DOMAIN msgs : msgs[i] = sev})

\* A CHANGE_QUAT call
QuatStep == CallStep /\ level = CHANGE_QUAT

EditApplied ==
  /\ (level # CHANGE_ALL /\ CHANGE_XYZ \subseteq level)
       => transform_'.origin = ConfigXYZ(config)
  /\ (level # CHANGE_ALL /\ CHANGE_RPY \subseteq level)
       => transform_'.basis = BasisOfRPY(RPYInRadians(angle_units_, ConfigRPY(config)))
  /\ (level = CHANGE_QUAT /\ length2(ConfigQuaternion(config)) # Zero)
       => transform_'.basis = setRotation(ConfigQuaternion(config))
  /\ level = CHANGE_UNITS => angle_units_' = config.angle_units

\* C20: main publishes and then serves requests, every request served is
\* applied by its call, nothing but a call changes translation or rotation,
\* and a publish sends the translation and rotation as the calls so far
\* left them: no edit is lost or published ahead of its application.
C20_EditsAppliedThenPublished ==
  [][/\ CallStep => EditApplied
     /\ (cb = "idle" /\ cb' = "pending" /\ pc # "reconfInit") => pc = "spin"
     /\ (Constructed /\ ~CallStep)
          => /\ transform_'.origin = transform_.origin
             /\ transform_'.basis = transform_.basis
     /\ SendStep
          => /\ sent'.origin = transform_.origin
             /\ sent'.basis = transform_.basis]_vars

====
